---- MODULE Spec2Model ----
(***************************************************************************)
(* Blob archiver: the ingestion orchestrator (ArchiverService).            *)
(*                                                                         *)
(* Start seeds the archive from "head", launches backfillBlobs as a        *)
(* goroutine and runs trackLatestBlocks in the foreground.  Both walks go  *)
(* through persistBlobsForBlockToS3, whose four external calls             *)
(* (BeaconBlockHeader, Exists, BlobSidecars, Write) are the atomic steps   *)
(* of this model; everything between two external calls is local to one    *)
(* goroutine and is folded into the step that ends with the next call.     *)
(***************************************************************************)
EXTENDS Integers, Sequences, FiniteSets, TLC

\* ------------------------------------------------------------ bounds
\* The canonical chain has blocks 0..MaxHeight.
MaxHeight == 3
\* How many external calls (chain client or storage) may fail in one run.
MaxFails == 1
\* How many goroutines call Stop.
MaxStopCallers == 2
\* Raw block ids of the API: the longest short run of one character.
MaxRun == 2
\* The largest blob index a request of the API asks for.
MaxIndex == 2

\* ------------------------------------------------------------ the chain client's world
\* The parent root of the first block: no header resolves for it.
ZeroRoot == -1

\* A competing branch of one block, ForkBlock, leaves the canonical chain at ForkPoint.
ForkPoint == MaxHeight - 2

ForkBlock == MaxHeight + 1

MainBlocks == 0..MaxHeight

AllBlocks == MainBlocks \cup {ForkBlock}

Parent(b) ==
    IF b = 0 THEN ZeroRoot
    ELSE IF b = ForkBlock THEN ForkPoint
    ELSE b - 1

\* v1.BeaconBlockHeader: Root and Header.Message.ParentRoot are all the service reads.
HeaderOf(b) == [Root |-> b, ParentRoot |-> Parent(b)]

NoHeader == [Root |-> ZeroRoot, ParentRoot |-> ZeroRoot]

\* The blob sidecars the chain client serves for a block root.
Sidecars(h) == [i \in 1..(h % 3) |-> [Index |-> i - 1, BlockRoot |-> h]]

\* Block identifiers handed to BeaconBlockHeader: the alias "head" or a root.
HeadId == [alias |-> "head", root |-> ZeroRoot]

RootId(h) == [alias |-> "", root |-> h]

\* cfg.OriginBlock
OriginBlock == 1

\* cfg.MetricsConfig.Enabled
MetricsEnabled == TRUE

\* storage.BlobData
BlobData(hash, sidecars) ==
    [Header |-> [BeaconBlockHash |-> hash], BlobSidecars |-> [Data |-> sidecars]]

Procs == {"main", "backfill"}

\* The goroutines that call ArchiverService.Stop.
StopCallers == 1..MaxStopCallers

VARIABLES
    head,             \* the block "head" resolves to
    reorged,          \* history: head has left the canonical chain
    store,            \* DataStore: block hash -> BlobData
    initStore,        \* history: the hashes stored before Start
    writes,           \* history: successful Write calls per hash
    fails,            \* failed external calls so far
    pc,               \* where each goroutine stands
    caller,           \* the function that called persistBlobsForBlockToS3
    blockIdentifier,  \* persistBlobsForBlockToS3: parameter
    currentHeader,    \* persistBlobsForBlockToS3: local
    blobSidecars,     \* persistBlobsForBlockToS3: local
    ops,              \* history: external calls of the call in progress
    lastRet,          \* history: the last completed persistBlobsForBlockToS3 call
    latest,           \* backfillBlobs: parameter (the seed header)
    current,          \* backfillBlobs: local
    bfTries,          \* history: backfill's calls and errors for its latest identifier
    bfPersisted,      \* history: the hashes backfill's calls have written
    start,            \* processBlocksUntilKnownBlock: local
    currentBlockId,   \* processBlocksUntilKnownBlock: local
    pollLog,          \* history: the calls of the current or last poll cycle
    pollSnap,         \* history: what "head" resolved to in this cycle, and the store then
    pollEnd,          \* history: how the last poll cycle ended
    stopped,          \* ArchiverService.stopped
    stopCh,           \* ArchiverService.stopCh: "open" or "closed"
    ctxDone,          \* the context passed to Start is cancelled
    metricsServer,    \* ArchiverService.metricsServer: "nil", "running", "stopped"
    stopResult,       \* what the last Stop call returned
    stopCalls,        \* per caller of Stop: where it stands in Stop, what it returned
    apiRequest,       \* retrieval API: the request being served
    apiResponse,      \* retrieval API: the response to it
    apiOps,           \* history: the external calls made to serve it
    storedBlobs,      \* metrics.RecordStoredBlobs
    processedBlocks   \* metrics.RecordProcessedBlock, per source

envVars == <<head, reorged>>
storeVars == <<store, initStore, writes, storedBlobs>>
callVars == <<currentHeader, blobSidecars>>
ctrlVars == <<pc, caller, blockIdentifier, ops, lastRet, latest, current, bfTries,
              bfPersisted, start, currentBlockId, pollLog, pollEnd,
              processedBlocks>>
stopVars == <<stopped, stopCh, ctxDone, metricsServer, stopResult, stopCalls>>
apiVars == <<apiRequest, apiResponse, apiOps>>

vars == <<head, reorged, store, initStore, writes, fails, pc, caller, blockIdentifier,
          currentHeader, blobSidecars, ops, lastRet, latest, current, bfTries,
          bfPersisted, start, currentBlockId, pollLog, pollSnap, pollEnd, stopped, stopCh, ctxDone,
          metricsServer, stopResult, stopCalls, apiRequest, apiResponse, apiOps,
          storedBlobs, processedBlocks>>

NoRet == [id |-> HeadId, header |-> NoHeader, existed |-> FALSE, err |-> FALSE,
          ops |-> <<>>, by |-> "none"]

NoSnap == [head |-> ZeroRoot, headStored |-> FALSE, parentStored |-> FALSE]

\* A goroutine that has not called Stop yet.
NoStopCall == [pc |-> "idle", ret |-> "none"]

\* The retrieval API has not served a request yet.
NoRequest == [id |-> <<>>, indices |-> [present |-> FALSE, set |-> {}], accept |-> ""]

NoResponse ==
    [status |-> 0, message |-> [text |-> "", arg |-> <<>>], data |-> <<>>, format |-> "",
     kind |-> ""]

Init ==
    /\ head \in OriginBlock..MaxHeight
    /\ reorged = FALSE
    /\ \E S \in SUBSET (0..MaxHeight) :
          /\ \A b \in S : b <= head
          /\ store = [h \in S |-> BlobData(h, Sidecars(h))]
          /\ initStore = S
    /\ writes = [h \in AllBlocks |-> 0]
    /\ fails = 0
    /\ pc = [p \in Procs |-> IF p = "main" THEN "Start" ELSE "idle"]
    /\ caller = [p \in Procs |-> "none"]
    /\ blockIdentifier = [p \in Procs |-> HeadId]
    /\ currentHeader = [p \in Procs |-> NoHeader]
    /\ blobSidecars = [p \in Procs |-> <<>>]
    /\ ops = [p \in Procs |-> <<>>]
    /\ lastRet = [p \in Procs |-> NoRet]
    /\ latest = NoHeader
    /\ current = NoHeader
    /\ bfTries = [id |-> HeadId, calls |-> 0, errs |-> 0]
    /\ bfPersisted = {}
    /\ start = NoHeader
    /\ currentBlockId = HeadId
    /\ pollLog = <<>>
    /\ pollSnap = NoSnap
    /\ pollEnd = "none"
    /\ stopped = FALSE
    /\ stopCh = "open"
    /\ ctxDone = FALSE
    /\ metricsServer = "nil"
    /\ stopResult = "none"
    /\ stopCalls = [c \in StopCallers |-> NoStopCall]
    /\ apiRequest = NoRequest
    /\ apiResponse = NoResponse
    /\ apiOps = <<>>
    /\ storedBlobs = 0
    /\ processedBlocks = [backfill |-> 0, live |-> 0]


\* ------------------------------------------------------------ callers of persistBlobsForBlockToS3
\* What a completed persistBlobsForBlockToS3 call leaves in the logs.
RetOf(p, hdr, existed, err, finalOps) ==
    [id |-> blockIdentifier[p], header |-> hdr, existed |-> existed, err |-> err,
     ops |-> finalOps, by |-> caller[p]]

\* Mutant of BackfillLoop: the origin test looks at the parent, so backfill ends
\* one block early and the origin block is never fetched.
BackfillLoopStopAtParent(cur, alreadyExists) ==
    IF alreadyExists \/ cur.ParentRoot = OriginBlock
    THEN [pc |-> "done", id |-> blockIdentifier["backfill"]]
    ELSE [pc |-> "Header", id |-> RootId(cur.ParentRoot)]

\* Mutant of BackfillLoop: the walk goes on from the grandparent, one block is
\* passed over.
BackfillLoopSkipOne(cur, alreadyExists) ==
    IF alreadyExists \/ cur.Root = OriginBlock
    THEN [pc |-> "done", id |-> blockIdentifier["backfill"]]
    ELSE IF cur.ParentRoot = OriginBlock \/ cur.ParentRoot = ZeroRoot
    THEN [pc |-> "Header", id |-> RootId(cur.ParentRoot)]
    ELSE [pc |-> "Header", id |-> RootId(Parent(cur.ParentRoot))]

\* Mutant of BackfillLoop: the origin test compares with the origin's parent, so
\* the walk ends one block below the origin.
BackfillLoopPastOrigin(cur, alreadyExists) ==
    IF alreadyExists \/ cur.Root = Parent(OriginBlock)
    THEN [pc |-> "done", id |-> blockIdentifier["backfill"]]
    ELSE [pc |-> "Header", id |-> RootId(cur.ParentRoot)]

\* Mutant of BackfillLoop: no origin test, the walk only ends on a stored block.
BackfillLoopNoOrigin(cur, alreadyExists) ==
    IF alreadyExists
    THEN [pc |-> "done", id |-> blockIdentifier["backfill"]]
    ELSE [pc |-> "Header", id |-> RootId(cur.ParentRoot)]

\* backfillBlobs, from the loop condition to the next persistBlobsForBlockToS3 call:
\* where the goroutine goes and which identifier it asks for.
BackfillLoop(cur, alreadyExists) ==
    IF alreadyExists \/ cur.Root = OriginBlock
    THEN [pc |-> "done", id |-> blockIdentifier["backfill"]]
    ELSE [pc |-> "Header", id |-> RootId(cur.ParentRoot)]

\* Start, after seeding: return the error, or launch backfill and enter trackLatestBlocks.
ReturnToStart(hdr, existed, err, finalOps) ==
    LET r == RetOf("main", hdr, existed, err, finalOps)
        loop == BackfillLoop(hdr, FALSE)
    IN  /\ lastRet' = [lastRet EXCEPT !["main"] = r]
        /\ ops' = [ops EXCEPT !["main"] = <<>>]
        /\ IF err
           THEN /\ pc' = [pc EXCEPT !["main"] = "failed"]
                /\ UNCHANGED <<caller, blockIdentifier, latest, current>>
           ELSE /\ pc' = [main |-> "select", backfill |-> loop.pc]
                /\ caller' = [main |-> "none", backfill |-> "backfillBlobs"]
                /\ blockIdentifier' = [blockIdentifier EXCEPT !["backfill"] = loop.id]
                /\ latest' = hdr
                /\ current' = hdr
        /\ UNCHANGED <<bfTries, bfPersisted, start, currentBlockId, pollLog, pollEnd,
                       processedBlocks>>

\* Mutant of BackfillOnError: current is not reverted but moved on to the block
\* that failed, which is thereby skipped.
BackfillOnErrorSkip(previous) ==
    [pc |-> "sleep", id |-> blockIdentifier["backfill"],
     current |-> HeaderOf(previous.ParentRoot)]

\* backfillBlobs, on an error of the call: revert to the block whose parent failed,
\* sleep, and go round the loop again.
BackfillOnError(previous) ==
    [pc |-> "sleep", id |-> blockIdentifier["backfill"], current |-> previous]

\* The counters of bfTries stop counting here.
TriesCap == MaxFails + 2

Bump(n) == IF n < TriesCap THEN n + 1 ELSE n

\* backfillBlobs, after a call: on error keep current and sleep, else advance and loop.
ReturnToBackfill(hdr, existed, err, finalOps) ==
    LET r == RetOf("backfill", hdr, existed, err, finalOps)
        loop == IF err THEN BackfillOnError(current)
                ELSE [pc |-> BackfillLoop(hdr, existed).pc,
                      id |-> BackfillLoop(hdr, existed).id, current |-> hdr]
    IN  /\ lastRet' = [lastRet EXCEPT !["backfill"] = r]
        /\ ops' = [ops EXCEPT !["backfill"] = <<>>]
        /\ bfTries' =
              IF bfTries.id = r.id
              THEN [bfTries EXCEPT !.calls = Bump(@), !.errs = IF err THEN Bump(@) ELSE @]
              ELSE [id |-> r.id, calls |-> 1, errs |-> IF err THEN 1 ELSE 0]
        /\ bfPersisted' = IF err \/ existed THEN bfPersisted ELSE bfPersisted \cup {hdr.Root}
        /\ pc' = [pc EXCEPT !["backfill"] = loop.pc]
        /\ blockIdentifier' = [blockIdentifier EXCEPT !["backfill"] = loop.id]
        /\ current' = loop.current
        /\ processedBlocks' =
              IF err \/ existed THEN processedBlocks
              ELSE [processedBlocks EXCEPT !.backfill = @ + 1]
        /\ UNCHANGED <<caller, latest, start, currentBlockId, pollLog, pollEnd>>

\* Mutant of LiveLoop: a known block does not end the walk.
LiveLoopNoBreak(hdr, existed, err) ==
    IF err THEN [pc |-> "select", id |-> currentBlockId, end |-> "error"]
    ELSE [pc |-> "Header", id |-> RootId(hdr.ParentRoot), end |-> "running"]

\* Mutant of LiveLoop: an error is retried at once, as backfill does.
LiveLoopRetry(hdr, existed, err) ==
    IF err THEN [pc |-> "Header", id |-> currentBlockId, end |-> "running"]
    ELSE IF existed THEN [pc |-> "select", id |-> currentBlockId, end |-> "known"]
    ELSE [pc |-> "Header", id |-> RootId(hdr.ParentRoot), end |-> "running"]

\* processBlocksUntilKnownBlock, after a call: return on error, break on a known
\* block, else go on with the parent.
LiveLoop(hdr, existed, err) ==
    IF err THEN [pc |-> "select", id |-> currentBlockId, end |-> "error"]
    ELSE IF existed THEN [pc |-> "select", id |-> currentBlockId, end |-> "known"]
    ELSE [pc |-> "Header", id |-> RootId(hdr.ParentRoot), end |-> "running"]

ReturnToLive(hdr, existed, err, finalOps) ==
    LET r == RetOf("main", hdr, existed, err, finalOps)
        loop == LiveLoop(hdr, existed, err)
    IN  /\ lastRet' = [lastRet EXCEPT !["main"] = r]
        /\ ops' = [ops EXCEPT !["main"] = <<>>]
        /\ pollLog' = Append(pollLog, [id |-> r.id, root |-> hdr.Root, existed |-> existed,
                                      err |-> err])
        /\ pc' = [pc EXCEPT !["main"] = loop.pc]
        /\ pollEnd' = loop.end
        /\ currentBlockId' = loop.id
        /\ blockIdentifier' = [blockIdentifier EXCEPT !["main"] = loop.id]
        /\ start' = IF ~err /\ start = NoHeader THEN hdr ELSE start
        /\ processedBlocks' =
              IF err \/ existed THEN processedBlocks
              ELSE [processedBlocks EXCEPT !.live = @ + 1]
        /\ UNCHANGED <<caller, latest, current, bfTries, bfPersisted>>

Return(p, hdr, existed, err, finalOps) ==
    CASE caller[p] = "Start" -> ReturnToStart(hdr, existed, err, finalOps)
      [] caller[p] = "backfillBlobs" -> ReturnToBackfill(hdr, existed, err, finalOps)
      [] caller[p] = "processBlocksUntilKnownBlock" -> ReturnToLive(hdr, existed, err, finalOps)

\* ------------------------------------------------------------ persistBlobsForBlockToS3
\* The block an identifier resolves to.
Resolve(id) == IF id.alias = "head" THEN head ELSE id.root

\* One external call: its target, whether it succeeded, and (history, for Exists)
\* whether the store held a record for the target when it was asked.
Op(name, root, ok) == [op |-> name, root |-> root, ok |-> ok, found |-> FALSE]

ExistsOp(root, ok) ==
    [op |-> "Exists", root |-> root, ok |-> ok, found |-> root \in DOMAIN store]

\* DataStore.Exists
Exists(st, hash) == hash \in DOMAIN st

\* Mutant of AlreadyStored: the answer of Exists is taken to be no.
AlreadyStoredNever(p) == FALSE

\* Mutant of AlreadyStored: Exists is asked about the parent's hash.
AlreadyStoredParent(p) == Exists(store, currentHeader[p].ParentRoot)

\* exists, err := a.dataStoreClient.Exists(ctx, common.Hash(currentHeader.Data.Root))
AlreadyStored(p) == Exists(store, currentHeader[p].Root)

\* Mutant of BlobsBlock: the sidecars are asked for by the caller's identifier,
\* which for "head" may by now resolve to another block.
BlobsBlockByIdentifier(p) == Resolve(blockIdentifier[p])

\* The block whose sidecars are asked for: currentHeader.Data.Root.String()
BlobsBlock(p) == currentHeader[p].Root

\* blobData := storage.BlobData{Header: {BeaconBlockHash: root}, BlobSidecars: {Data}}
BlobDataOf(p) == BlobData(currentHeader[p].Root, blobSidecars[p])

\* A call that does not return yet: only the call's own state moves.
Continue(p, nextPc, op) ==
    /\ pc' = [pc EXCEPT ![p] = nextPc]
    /\ ops' = [ops EXCEPT ![p] = Append(@, op)]
    /\ UNCHANGED <<caller, blockIdentifier, lastRet, latest, current, bfTries, bfPersisted, start,
                   currentBlockId, pollLog, pollEnd, processedBlocks>>

\* a.beaconClient.BeaconBlockHeader(ctx, {Block: blockIdentifier})
FetchHeader(p) ==
    /\ pc[p] = "Header"
    /\ LET b == Resolve(blockIdentifier[p])
       IN  \/ /\ b # ZeroRoot
              /\ currentHeader' = [currentHeader EXCEPT ![p] = HeaderOf(b)]
              /\ pollSnap' =
                    IF caller[p] = "processBlocksUntilKnownBlock" /\ blockIdentifier[p] = HeadId
                    THEN [head |-> b, headStored |-> b \in DOMAIN store,
                          parentStored |-> Parent(b) \in DOMAIN store]
                    ELSE pollSnap
              /\ Continue(p, "Exists", Op("BeaconBlockHeader", b, TRUE))
              /\ UNCHANGED fails
           \/ /\ b = ZeroRoot \/ fails < MaxFails
              /\ fails' = IF b = ZeroRoot THEN fails ELSE fails + 1
              /\ Return(p, NoHeader, FALSE, TRUE,
                        Append(ops[p], Op("BeaconBlockHeader", b, FALSE)))
              /\ UNCHANGED <<currentHeader, pollSnap>>
    /\ UNCHANGED <<envVars, storeVars, blobSidecars, stopVars>>
    /\ UNCHANGED apiVars

\* a.dataStoreClient.Exists(ctx, currentHeader.Data.Root); if exists { return }
CheckExists(p) ==
    /\ pc[p] = "Exists"
    /\ LET h == currentHeader[p].Root
       IN  \/ /\ AlreadyStored(p)
              /\ Return(p, currentHeader[p], TRUE, FALSE, Append(ops[p], ExistsOp(h, TRUE)))
              /\ UNCHANGED fails
           \/ /\ ~AlreadyStored(p)
              /\ Continue(p, "Blobs", ExistsOp(h, TRUE))
              /\ UNCHANGED fails
           \/ /\ fails < MaxFails
              /\ fails' = fails + 1
              /\ Return(p, NoHeader, FALSE, TRUE, Append(ops[p], ExistsOp(h, FALSE)))
    /\ UNCHANGED <<envVars, storeVars, callVars, pollSnap, stopVars>>
    /\ UNCHANGED apiVars

\* Mutant of FetchBlobs: the error of BlobSidecars is dropped and the call goes on
\* to write a record without sidecars.
FetchBlobsIgnoreError(p) ==
    /\ pc[p] = "Blobs"
    /\ LET h == BlobsBlock(p)
       IN  \/ /\ blobSidecars' = [blobSidecars EXCEPT ![p] = Sidecars(h)]
              /\ Continue(p, "Write", Op("BlobSidecars", h, TRUE))
              /\ UNCHANGED fails
           \/ /\ fails < MaxFails
              /\ fails' = fails + 1
              /\ blobSidecars' = [blobSidecars EXCEPT ![p] = <<>>]
              /\ Continue(p, "Write", Op("BlobSidecars", h, FALSE))
    /\ UNCHANGED <<envVars, storeVars, currentHeader, pollSnap, stopVars>>
    /\ UNCHANGED apiVars

\* a.beaconClient.BlobSidecars(ctx, {Block: currentHeader.Data.Root.String()})
FetchBlobs(p) ==
    /\ pc[p] = "Blobs"
    /\ LET h == BlobsBlock(p)
       IN  \/ /\ blobSidecars' = [blobSidecars EXCEPT ![p] = Sidecars(h)]
              /\ Continue(p, "Write", Op("BlobSidecars", h, TRUE))
              /\ UNCHANGED fails
           \/ /\ fails < MaxFails
              /\ fails' = fails + 1
              /\ Return(p, NoHeader, FALSE, TRUE,
                        Append(ops[p], Op("BlobSidecars", h, FALSE)))
              /\ UNCHANGED blobSidecars
    /\ UNCHANGED <<envVars, storeVars, currentHeader, pollSnap, stopVars>>
    /\ UNCHANGED apiVars

\* DataStore.Write: persists or overwrites the record under its BeaconBlockHash.
Write(st, blobData) ==
    LET key == blobData.Header.BeaconBlockHash
    IN  [h \in DOMAIN st \cup {key} |-> IF h = key THEN blobData ELSE st[h]]

\* a.dataStoreClient.Write(ctx, blobData); a.metrics.RecordStoredBlobs
WriteBlobs(p) ==
    /\ pc[p] = "Write"
    /\ LET blobData == BlobDataOf(p)
           h == blobData.Header.BeaconBlockHash
       IN  \/ /\ store' = Write(store, blobData)
              /\ writes' = [writes EXCEPT ![h] = @ + 1]
              /\ storedBlobs' = storedBlobs + Len(blobSidecars[p])
              /\ Return(p, currentHeader[p], FALSE, FALSE,
                        Append(ops[p], Op("Write", h, TRUE)))
              /\ UNCHANGED fails
           \/ /\ fails < MaxFails
              /\ fails' = fails + 1
              /\ Return(p, NoHeader, FALSE, TRUE,
                        Append(ops[p], Op("Write", h, FALSE)))
              /\ UNCHANGED <<store, writes, storedBlobs>>
    /\ UNCHANGED <<envVars, initStore, callVars, pollSnap, stopVars>>
    /\ UNCHANGED apiVars


\* ------------------------------------------------------------ Start, the loops, Stop
\* Start: the metrics server, then the seeding call persistBlobsForBlockToS3(ctx, "head").
StartService ==
    /\ pc["main"] = "Start"
    /\ \/ /\ MetricsEnabled
          /\ pc' = [pc EXCEPT !["main"] = "failed"]
          /\ UNCHANGED <<metricsServer, caller, blockIdentifier>>
       \/ /\ metricsServer' = IF MetricsEnabled THEN "running" ELSE metricsServer
          /\ pc' = [pc EXCEPT !["main"] = "Header"]
          /\ caller' = [caller EXCEPT !["main"] = "Start"]
          /\ blockIdentifier' = [blockIdentifier EXCEPT !["main"] = HeadId]
    /\ UNCHANGED <<envVars, storeVars, fails, callVars, ops, lastRet, latest, current,
                   bfTries, bfPersisted, start, currentBlockId, pollLog, pollSnap, pollEnd, stopped,
                   stopCh, ctxDone, stopResult, stopCalls, processedBlocks>>
    /\ UNCHANGED apiVars

\* backfillBlobs: time.Sleep(backfillErrorRetryInterval) is over; continue the loop.
BackfillWake ==
    /\ pc["backfill"] = "sleep"
    /\ LET loop == BackfillLoop(current, FALSE)
       IN  /\ pc' = [pc EXCEPT !["backfill"] = loop.pc]
           /\ blockIdentifier' = [blockIdentifier EXCEPT !["backfill"] = loop.id]
    /\ UNCHANGED <<envVars, storeVars, fails, callVars, caller, ops, lastRet, latest,
                   current, bfTries, bfPersisted, start, currentBlockId, pollLog, pollSnap, pollEnd,
                   stopVars, processedBlocks>>
    /\ UNCHANGED apiVars

\* trackLatestBlocks: case <-t.C, the first call of processBlocksUntilKnownBlock.
LiveTick ==
    /\ pc["main"] = "select"
    /\ pc' = [pc EXCEPT !["main"] = "Header"]
    /\ caller' = [caller EXCEPT !["main"] = "processBlocksUntilKnownBlock"]
    /\ start' = NoHeader
    /\ currentBlockId' = HeadId
    /\ blockIdentifier' = [blockIdentifier EXCEPT !["main"] = HeadId]
    /\ pollLog' = <<>>
    /\ pollSnap' = NoSnap
    /\ pollEnd' = "running"
    /\ UNCHANGED <<envVars, storeVars, fails, callVars, ops, lastRet, latest, current,
                   bfTries, bfPersisted, stopVars, processedBlocks>>
    /\ UNCHANGED apiVars

\* Mutant of StopRequested: the select has no case for the stop channel.
StopRequestedCtxOnly == ctxDone

\* trackLatestBlocks: the select cases that end the loop are ready.
StopRequested == ctxDone \/ stopCh = "closed"

\* trackLatestBlocks: case <-ctx.Done() or case <-a.stopCh: return nil.
LiveReturn ==
    /\ pc["main"] = "select"
    /\ StopRequested
    /\ pc' = [pc EXCEPT !["main"] = "returned"]
    /\ UNCHANGED <<envVars, storeVars, fails, callVars, caller, blockIdentifier, ops,
                   lastRet, latest, current, bfTries, bfPersisted, start, currentBlockId, pollLog,
                   pollSnap, pollEnd, stopVars, processedBlocks>>
    /\ UNCHANGED apiVars

\* ArchiverService.Stop, called by one caller at a time.
Stop ==
    /\ IF stopped
       THEN /\ stopResult' = "ErrAlreadyStopped"
            /\ UNCHANGED <<stopped, stopCh, metricsServer>>
       ELSE /\ stopped' = TRUE
            /\ stopCh' = "closed"
            /\ IF metricsServer # "nil"
               THEN \/ /\ metricsServer' = "stopped"
                       /\ stopResult' = "nil"
                    \/ /\ stopResult' = "err"
                       /\ UNCHANGED metricsServer
               ELSE /\ stopResult' = "nil"
                    /\ UNCHANGED metricsServer
    /\ UNCHANGED <<envVars, storeVars, fails, callVars, ctrlVars, pollSnap, ctxDone,
                   stopCalls>>
    /\ UNCHANGED apiVars

\* The caller of Start cancels its context.
CancelCtx ==
    /\ ~ctxDone
    /\ ctxDone' = TRUE
    /\ UNCHANGED <<envVars, storeVars, fails, callVars, ctrlVars, pollSnap, stopped,
                   stopCh, metricsServer, stopResult, stopCalls>>
    /\ UNCHANGED apiVars

\* ------------------------------------------------------------ Stop, call by call
\* Stop as several goroutines run it: stopped is an atomic.Bool, so the Load, the
\* Store, the close of the channel and the stop of the metrics server are each
\* one step, and the steps of two callers interleave.

\* close(a.stopCh) on a closed channel panics, and nothing recovers: the process dies.
Panicked == \E c \in StopCallers : stopCalls[c].pc = "panic"

StopStep(c, nextPc, ret) == stopCalls' = [stopCalls EXCEPT ![c] = [pc |-> nextPc, ret |-> ret]]

\* Mutant of StopLoad: Stop does not look at the flag.
StopLoadNoCheck(c) ==
    /\ ~Panicked
    /\ stopCalls[c].pc = "idle"
    /\ StopStep(c, "Store", "none")
    /\ UNCHANGED <<envVars, storeVars, fails, callVars, ctrlVars, pollSnap, stopped, stopCh,
                   ctxDone, metricsServer, stopResult>>
    /\ UNCHANGED apiVars

\* if a.stopped.Load() { return ErrAlreadyStopped }
StopLoad(c) ==
    /\ ~Panicked
    /\ stopCalls[c].pc = "idle"
    /\ IF stopped
       THEN StopStep(c, "returned", "ErrAlreadyStopped")
       ELSE StopStep(c, "Store", "none")
    /\ UNCHANGED <<envVars, storeVars, fails, callVars, ctrlVars, pollSnap, stopped, stopCh,
                   ctxDone, metricsServer, stopResult>>
    /\ UNCHANGED apiVars

\* a.stopped.Store(true)
StopStore(c) ==
    /\ ~Panicked
    /\ stopCalls[c].pc = "Store"
    /\ stopped' = TRUE
    /\ StopStep(c, "close", "none")
    /\ UNCHANGED <<envVars, storeVars, fails, callVars, ctrlVars, pollSnap, stopCh, ctxDone,
                   metricsServer, stopResult>>
    /\ UNCHANGED apiVars

\* close(a.stopCh)
StopClose(c) ==
    /\ ~Panicked
    /\ stopCalls[c].pc = "close"
    /\ IF stopCh = "closed"
       THEN /\ StopStep(c, "panic", "none")
            /\ UNCHANGED stopCh
       ELSE /\ stopCh' = "closed"
            /\ StopStep(c, "metrics", "none")
    /\ UNCHANGED <<envVars, storeVars, fails, callVars, ctrlVars, pollSnap, stopped, ctxDone,
                   metricsServer, stopResult>>
    /\ UNCHANGED apiVars

\* if a.metricsServer != nil { if err := a.metricsServer.Stop(ctx); err != nil {
\* return err } }; return nil
StopMetrics(c) ==
    /\ ~Panicked
    /\ stopCalls[c].pc = "metrics"
    /\ IF metricsServer # "nil"
       THEN \/ /\ metricsServer' = "stopped"
               /\ StopStep(c, "returned", "nil")
            \/ /\ StopStep(c, "returned", "err")
               /\ UNCHANGED metricsServer
       ELSE /\ StopStep(c, "returned", "nil")
            /\ UNCHANGED metricsServer
    /\ UNCHANGED <<envVars, storeVars, fails, callVars, ctrlVars, pollSnap, stopped, stopCh,
                   ctxDone, stopResult>>
    /\ UNCHANGED apiVars

\* ------------------------------------------------------------ the chain
\* A new block is produced on top of the head.
AdvanceHead ==
    /\ head # MaxHeight
    /\ head # ForkBlock
    /\ head' = head + 1
    /\ UNCHANGED <<reorged, storeVars, fails, callVars, ctrlVars, pollSnap, stopVars>>
    /\ UNCHANGED apiVars

\* The head moves to the competing branch.
Reorg ==
    /\ head \in MainBlocks
    /\ head > ForkPoint
    /\ head' = ForkBlock
    /\ reorged' = TRUE
    /\ UNCHANGED <<storeVars, fails, callVars, ctrlVars, pollSnap, stopVars>>
    /\ UNCHANGED apiVars

\* The traversals alone: nobody stops the service.
Next ==
    \/ StartService
    \/ \E p \in Procs : FetchHeader(p)
    \/ \E p \in Procs : CheckExists(p)
    \/ \E p \in Procs : FetchBlobs(p)
    \/ \E p \in Procs : WriteBlobs(p)
    \/ BackfillWake
    \/ LiveTick
    \/ AdvanceHead
    \/ Reorg

Spec == Init /\ [][Next]_vars

\* The traversals and the shutdown: Stop and the context's cancellation may come
\* at any moment.
NextStop ==
    \/ StartService
    \/ \E p \in Procs : FetchHeader(p)
    \/ \E p \in Procs : CheckExists(p)
    \/ \E p \in Procs : FetchBlobs(p)
    \/ \E p \in Procs : WriteBlobs(p)
    \/ BackfillWake
    \/ LiveTick
    \/ LiveReturn
    \/ Stop
    \/ CancelCtx
    \/ AdvanceHead
    \/ Reorg

\* The shutdown is studied on a fresh archive: nothing is stored before Start.
InitStop == Init /\ initStore = {}

SpecStop == InitStop /\ [][NextStop]_vars

\* A goroutine that can take a step takes one: its external call returns, its
\* sleep ends.
BackfillStep ==
    \/ FetchHeader("backfill")
    \/ CheckExists("backfill")
    \/ FetchBlobs("backfill")
    \/ WriteBlobs("backfill")
    \/ BackfillWake

MainCallStep ==
    \/ FetchHeader("main")
    \/ CheckExists("main")
    \/ FetchBlobs("main")
    \/ WriteBlobs("main")

\* Backfill's termination is studied from a head one block below the top of the
\* chain, on an archive that holds at most one record.
InitBackfill == Init /\ head = MaxHeight - 1 /\ Cardinality(initStore) <= 1

\* The traversals, with the backfill goroutine scheduled fairly.
FairSpec == InitBackfill /\ [][Next]_vars /\ WF_vars(BackfillStep)

\* The two territories are studied on a fresh archive, from a head one block
\* below the top of the chain.
InitBoth == Init /\ head = MaxHeight - 1 /\ initStore = {}

\* The traversals, with both goroutines scheduled fairly: every external call
\* returns.
FairSpecBoth ==
    InitBoth /\ [][Next]_vars /\ WF_vars(BackfillStep) /\ WF_vars(MainCallStep)

\* The walks are studied from any head, on an archive that holds at most one
\* record before Start.
InitWalk == Init /\ Cardinality(initStore) <= 1

SpecWalk == InitWalk /\ [][Next]_vars

\* Live tracking and the shutdown, from the state in which Start has just seeded
\* a fresh archive at the origin block without a failure: the seed is written,
\* backfill has ended where it started, and trackLatestBlocks is at its select.
InitLive ==
    /\ head = OriginBlock
    /\ reorged = FALSE
    /\ store = [h \in {OriginBlock} |-> BlobData(h, Sidecars(h))]
    /\ initStore = {}
    /\ writes = [h \in AllBlocks |-> IF h = OriginBlock THEN 1 ELSE 0]
    /\ fails = 0
    /\ pc = [p \in Procs |-> IF p = "main" THEN "select" ELSE "done"]
    /\ caller = [p \in Procs |-> IF p = "main" THEN "none" ELSE "backfillBlobs"]
    /\ blockIdentifier = [p \in Procs |-> HeadId]
    /\ currentHeader = [p \in Procs |-> IF p = "main" THEN HeaderOf(OriginBlock)
                                        ELSE NoHeader]
    /\ blobSidecars = [p \in Procs |-> IF p = "main" THEN Sidecars(OriginBlock) ELSE <<>>]
    /\ ops = [p \in Procs |-> <<>>]
    /\ lastRet =
          [p \in Procs |->
              IF p = "main"
              THEN [id |-> HeadId, header |-> HeaderOf(OriginBlock), existed |-> FALSE,
                    err |-> FALSE, by |-> "Start",
                    ops |-> <<Op("BeaconBlockHeader", OriginBlock, TRUE),
                              [op |-> "Exists", root |-> OriginBlock, ok |-> TRUE,
                               found |-> FALSE],
                              Op("BlobSidecars", OriginBlock, TRUE),
                              Op("Write", OriginBlock, TRUE)>>]
              ELSE NoRet]
    /\ latest = HeaderOf(OriginBlock)
    /\ current = HeaderOf(OriginBlock)
    /\ bfTries = [id |-> HeadId, calls |-> 0, errs |-> 0]
    /\ bfPersisted = {}
    /\ start = NoHeader
    /\ currentBlockId = HeadId
    /\ pollLog = <<>>
    /\ pollSnap = NoSnap
    /\ pollEnd = "none"
    /\ stopped = FALSE
    /\ stopCh = "open"
    /\ ctxDone = FALSE
    /\ metricsServer = IF MetricsEnabled THEN "running" ELSE "nil"
    /\ stopResult = "none"
    /\ stopCalls = [c \in StopCallers |-> NoStopCall]
    /\ apiRequest = NoRequest
    /\ apiResponse = NoResponse
    /\ apiOps = <<>>
    /\ storedBlobs = Len(Sidecars(OriginBlock))
    /\ processedBlocks = [backfill |-> 0, live |-> 0]

NextLive ==
    \/ \E p \in Procs : FetchHeader(p)
    \/ \E p \in Procs : CheckExists(p)
    \/ \E p \in Procs : FetchBlobs(p)
    \/ \E p \in Procs : WriteBlobs(p)
    \/ LiveTick
    \/ LiveReturn
    \/ Stop
    \/ CancelCtx
    \/ AdvanceHead
    \/ Reorg

\* The calls of the main goroutine return, and a select whose stop case is ready
\* again and again takes it in the end (Go picks among the ready cases at random).
FairSpecLive ==
    InitLive /\ [][NextLive]_vars /\ WF_vars(MainCallStep) /\ SF_vars(LiveReturn)

\* The callers of Stop, against a service whose trackLatestBlocks waits in its
\* select: the steps of Stop, the select's stop cases, the context's cancellation.
NextStopCalls ==
    \/ \E c \in StopCallers : StopLoad(c)
    \/ \E c \in StopCallers : StopStore(c)
    \/ \E c \in StopCallers : StopClose(c)
    \/ \E c \in StopCallers : StopMetrics(c)
    \/ ~Panicked /\ LiveReturn
    \/ ~Panicked /\ CancelCtx

\* Stop may be called on a running service or before Start has run.
InitStopCalls == InitLive \/ (Init /\ head = OriginBlock /\ initStore = {})

SpecStopCalls == InitStopCalls /\ [][NextStopCalls]_vars

TypeOK ==
    /\ head \in AllBlocks
    /\ DOMAIN store \subseteq AllBlocks
    /\ fails \in 0..MaxFails
    /\ pc["main"] \in {"Start", "failed", "Header", "Exists", "Blobs", "Write", "select",
                       "returned"}
    /\ pc["backfill"] \in {"idle", "Header", "Exists", "Blobs", "Write", "sleep", "done"}


\* ------------------------------------------------------------ the parent chain
RECURSIVE AncestorsOrSelf(_)
AncestorsOrSelf(b) == IF b = ZeroRoot THEN {} ELSE {b} \cup AncestorsOrSelf(Parent(b))

\* The blocks of the parent chain from `from` down to `to`, both included.
Between(from, to) == {b \in AncestorsOrSelf(from) : to \in AncestorsOrSelf(b)}

InCall(p) == pc[p] \in {"Header", "Exists", "Blobs", "Write"}

WellFormed(h) == store[h] = BlobData(h, Sidecars(h))

\* ------------------------------------------------------------ the retrieval API
\* Raw block ids are sequences of one-character strings.
Digits == <<"0", "1", "2", "3", "4", "5", "6", "7", "8", "9">>

DigitChars == {Digits[i] : i \in 1..Len(Digits)}

HexChars == DigitChars \cup {"a", "b", "c", "d", "e", "f", "A", "B", "C", "D", "E", "F"}

\* The number of hexadecimal characters of a content hash.
HashHexLen == 64

HashPrefix == <<"0", "x">>

GenesisAlias == <<"g", "e", "n", "e", "s", "i", "s">>

FinalizedAlias == <<"f", "i", "n", "a", "l", "i", "z", "e", "d">>

HeadAlias == <<"h", "e", "a", "d">>

\* Mutant of isHash: the 0x prefix is optional.
isHashPrefixOptional(s) ==
    \/ /\ Len(s) = HashHexLen
       /\ \A i \in 1..Len(s) : s[i] \in HexChars
    \/ /\ Len(s) = Len(HashPrefix) + HashHexLen
       /\ SubSeq(s, 1, Len(HashPrefix)) = HashPrefix
       /\ \A i \in (Len(HashPrefix) + 1)..Len(s) : s[i] \in HexChars

\* 0x followed by exactly 64 hexadecimal characters, in either case.
isHash(s) ==
    /\ Len(s) = Len(HashPrefix) + HashHexLen
    /\ SubSeq(s, 1, Len(HashPrefix)) = HashPrefix
    /\ \A i \in (Len(HashPrefix) + 1)..Len(s) : s[i] \in HexChars

\* One or more decimal digits, nothing else.
isSlot(s) == Len(s) >= 1 /\ \A i \in 1..Len(s) : s[i] \in DigitChars

\* Exactly one of the named aliases.
isKnownIdentifier(s) == s \in {GenesisAlias, FinalizedAlias, HeadAlias}

\* The classification rules, in their priority order.
Classify(s) ==
    IF isHash(s) THEN "ContentHash"
    ELSE IF isSlot(s) THEN "Position"
    ELSE IF isKnownIdentifier(s) THEN "NamedAlias"
    ELSE "invalid"

\* ---- the chain client, as the API sees it
Rep(c, n) == [i \in 1..n |-> c]

\* The content hash of a block, as a string.
HashStr(b) == HashPrefix \o Rep(Digits[b + 1], HashHexLen)

DigitValue(c) == CHOOSE i \in 0..9 : Digits[i + 1] = c

\* The slot numbers beyond this one all resolve to nothing.
SlotCap == MaxHeight + 2

CapSlot(n) == IF n > SlotCap THEN SlotCap ELSE n

\* The decimal value of a string of digits, capped: below ten it is the last
\* digit after leading zeros.
SlotOf(s) ==
    IF \A i \in 1..(Len(s) - 1) : s[i] = "0"
    THEN CapSlot(DigitValue(s[Len(s)]))
    ELSE SlotCap

\* The block the chain client resolves a valid identifier to; ZeroRoot if none.
ResolveId(kind, s) ==
    CASE kind = "ContentHash" ->
            IF \E b \in AllBlocks : HashStr(b) = s
            THEN CHOOSE b \in AllBlocks : HashStr(b) = s
            ELSE ZeroRoot
      [] kind = "Position" ->
            IF SlotOf(s) \in AncestorsOrSelf(head) THEN SlotOf(s) ELSE ZeroRoot
      [] kind = "NamedAlias" ->
            IF s = HeadAlias THEN head
            ELSE IF s = GenesisAlias THEN 0
            ELSE IF ForkPoint \in AncestorsOrSelf(head) THEN ForkPoint ELSE head

\* ---- the handler
\* Mutant of FilterBlobs: the requested index is compared with the entry's
\* place in the sequence, counted from one.
RECURSIVE FilterBlobsByPlace(_, _)
FilterBlobsByPlace(blobs, indices) ==
    IF blobs = <<>> THEN <<>>
    ELSE LET rest == FilterBlobsByPlace(SubSeq(blobs, 1, Len(blobs) - 1), indices)
         IN  IF Len(blobs) \in indices THEN Append(rest, blobs[Len(blobs)]) ELSE rest

\* Step 4: keep the entries whose position is in the requested set, in order.
RECURSIVE FilterBlobs(_, _)
FilterBlobs(blobs, indices) ==
    IF blobs = <<>> THEN <<>>
    ELSE LET rest == FilterBlobs(SubSeq(blobs, 1, Len(blobs) - 1), indices)
             last == blobs[Len(blobs)]
         IN  IF last.Index \in indices THEN Append(rest, last) ELSE rest

\* Step 5: the binary media type yields the binary encoding, anything else the
\* textual one.
Negotiate(accept) == IF accept = "application/octet-stream" THEN "ssz" ELSE "json"

ErrorResponse(status, text, arg, kind) ==
    [status |-> status, message |-> [text |-> text, arg |-> arg], data |-> <<>>,
     format |-> "json", kind |-> kind]

\* The 5xx-class statuses a storage failure is surfaced as.
ServerErrors == {500, 503}

\* Mutant of Respond: a block that is not found is answered with an empty
\* sequence and status 200.
RespondEmptyOnMissing(req, resolved, read, code) ==
    LET kind == Classify(req.id)
        b == ResolveId(kind, req.id)
    IN  IF kind = "invalid"
        THEN ErrorResponse(400, "invalid block id: ", req.id, kind)
        ELSE IF ~resolved \/ b = ZeroRoot \/ (read = "ok" /\ b \notin DOMAIN store)
        THEN [status |-> 200, message |-> [text |-> "", arg |-> <<>>], data |-> <<>>,
              format |-> Negotiate(req.accept), kind |-> kind]
        ELSE IF read = "unavailable"
        THEN ErrorResponse(code, "Internal server error", <<>>, kind)
        ELSE LET blobs == store[b].BlobSidecars.Data
             IN  [status |-> 200, message |-> [text |-> "", arg |-> <<>>],
                  data |-> IF req.indices.present
                           THEN FilterBlobs(blobs, req.indices.set) ELSE blobs,
                  format |-> Negotiate(req.accept), kind |-> kind]

\* Steps 1 to 5 of the blob route: the response to a request, given whether the
\* chain client resolves the identifier and how the storage read goes.
Respond(req, resolved, read, code) ==
    LET kind == Classify(req.id)
        b == ResolveId(kind, req.id)
    IN  IF kind = "invalid"
        THEN ErrorResponse(400, "invalid block id: ", req.id, kind)
        ELSE IF ~resolved \/ b = ZeroRoot
        THEN ErrorResponse(404, "Block not found", <<>>, kind)
        ELSE IF read = "ok" /\ b \notin DOMAIN store
        THEN ErrorResponse(404, "Block not found", <<>>, kind)
        ELSE IF read = "unavailable"
        THEN ErrorResponse(code, "Internal server error", <<>>, kind)
        ELSE LET blobs == store[b].BlobSidecars.Data
             IN  [status |-> 200, message |-> [text |-> "", arg |-> <<>>],
                  data |-> IF req.indices.present
                           THEN FilterBlobs(blobs, req.indices.set) ELSE blobs,
                  format |-> Negotiate(req.accept), kind |-> kind]

\* The external calls made on the way to the response.
CallsMade(req, resolved) ==
    LET kind == Classify(req.id)
        b == ResolveId(kind, req.id)
    IN  IF kind = "invalid" THEN <<>>
        ELSE IF ~resolved \/ b = ZeroRoot THEN <<Op("BeaconBlockHeader", b, FALSE)>>
        ELSE <<Op("BeaconBlockHeader", b, TRUE), Op("Read", b, TRUE)>>

\* ---- the requests
\* The characters raw ids are made of: the digits of the blocks' hashes, a digit
\* and letters that are hexadecimal, and letters that are not.
IdChars == {Digits[b + 1] : b \in AllBlocks} \cup {"9", "a", "F", "x", "z"}

\* Short runs, and runs around the length of a hash.
RunLens == (0..MaxRun) \cup {HashHexLen - 1, HashHexLen, HashHexLen + 1}

\* Raw ids: the aliases, two other words, and a run of one character with or
\* without the 0x prefix, with or without one more character after it.
RawIds ==
    {GenesisAlias, FinalizedAlias, HeadAlias, <<"f", "o", "o", "b", "a", "r">>,
     <<"H", "e", "a", "d">>}
    \cup ({pre \o Rep(c, n) \o suf :
             pre \in {<<>>, HashPrefix}, c \in IdChars, n \in RunLens,
             suf \in {<<>>, <<"1">>, <<"z">>}} \ {<<>>})

IndexOpts ==
    {[present |-> FALSE, set |-> {}]}
    \cup {[present |-> TRUE, set |-> S] : S \in SUBSET (0..MaxIndex)}

AcceptOpts == {"application/json", "application/octet-stream", ""}

\* GET /eth/v1/beacon/blob_sidecars/{block_id}[?indices=...]
BlobSidecarsHandler ==
    /\ apiRequest = NoRequest
    /\ \E id \in RawIds, indices \in IndexOpts, accept \in AcceptOpts,
          resolved \in BOOLEAN, read \in {"ok", "unavailable"},
          code \in ServerErrors :
          LET req == [id |-> id, indices |-> indices, accept |-> accept]
          IN  /\ apiRequest' = req
              /\ apiResponse' = Respond(req, resolved, read, code)
              /\ apiOps' = IF read = "unavailable" /\ Len(CallsMade(req, resolved)) = 2
                           THEN <<CallsMade(req, resolved)[1],
                                  Op("Read", CallsMade(req, resolved)[2].root, FALSE)>>
                           ELSE CallsMade(req, resolved)
    /\ UNCHANGED <<envVars, storeVars, fails, callVars, ctrlVars, pollSnap, stopVars>>

\* The API serves requests from an archive the archiver has filled before: it
\* holds the origin block and the block after it, the other blocks are missing.
InitAPI == Init /\ head = MaxHeight /\ initStore = {OriginBlock, OriginBlock + 1}

\* The response is sent; the request's state is discarded.
RequestDone ==
    /\ apiRequest # NoRequest
    /\ apiRequest' = NoRequest
    /\ apiResponse' = NoResponse
    /\ apiOps' = <<>>
    /\ UNCHANGED <<envVars, storeVars, fails, callVars, ctrlVars, pollSnap, stopVars>>

NextAPI == BlobSidecarsHandler \/ RequestDone \/ Reorg

SpecAPI == InitAPI /\ [][NextAPI]_vars

\* ------------------------------------------------------------ C1
\* C1: persistBlobsForBlockToS3 is gated by Exists.  Every call that returned
\* without error resolved the header, asked Exists for that header's hash, and
\* then: if the store held a record, returned alreadyExisted = TRUE after these
\* two calls alone (no BlobSidecars, no Write); if not, fetched the sidecars of
\* that hash, made exactly one Write keyed by that hash, and returned
\* alreadyExisted = FALSE with the record stored.
C1_GatedByExists ==
    \A p \in Procs :
        LET r == lastRet[p]
            h == r.header.Root
        IN  (r.by # "none" /\ ~r.err) =>
                /\ h = Resolve(r.id) \/ r.id = HeadId
                /\ Len(r.ops) >= 2
                /\ r.ops[1] = Op("BeaconBlockHeader", h, TRUE)
                /\ r.ops[2].op = "Exists" /\ r.ops[2].root = h /\ r.ops[2].ok
                /\ r.existed = r.ops[2].found
                /\ h \in DOMAIN store
                /\ IF r.existed
                   THEN Len(r.ops) = 2
                   ELSE /\ Len(r.ops) = 4
                        /\ r.ops[3] = Op("BlobSidecars", h, TRUE)
                        /\ r.ops[4] = Op("Write", h, TRUE)
                        /\ writes[h] >= 1

\* Both cases at once: the main goroutine's last call found its block stored,
\* backfill's last call fetched and wrote one.
C1_Witness ==
    /\ lastRet["main"].by # "none" /\ ~lastRet["main"].err /\ lastRet["main"].existed
    /\ lastRet["backfill"].by # "none" /\ ~lastRet["backfill"].err
    /\ ~lastRet["backfill"].existed

\* ------------------------------------------------------------ C2
BackfillDone == pc["backfill"] = "done"

BackfillCanStep ==
    ENABLED (\/ FetchHeader("backfill") \/ CheckExists("backfill") \/ FetchBlobs("backfill")
             \/ WriteBlobs("backfill") \/ BackfillWake)

\* C2 as claimed: when backfill has terminated, every ancestor of the seed down
\* to the origin has a stored record.
C2_AllAncestorsStored ==
    BackfillDone =>
        \A b \in Between(latest.Root, OriginBlock) \ {latest.Root} : b \in DOMAIN store

\* C2, amended: when backfill has terminated it stands on the origin or on the
\* first ancestor it found already stored; every ancestor of the seed down to
\* that block has a stored record; backfill wrote exactly the ones it did not
\* find stored, none of which was stored initially; and it can make no further
\* chain-client or storage call.
C2_BackfillToStop ==
    BackfillDone =>
        LET visited == Between(latest.Root, current.Root) \ {latest.Root}
            foundStored == lastRet["backfill"].by # "none" /\ lastRet["backfill"].existed
        IN  /\ current.Root \in AncestorsOrSelf(latest.Root)
            /\ current.Root = OriginBlock \/ foundStored
            /\ \A b \in visited : b \in DOMAIN store
            /\ bfPersisted = IF foundStored THEN visited \ {current.Root} ELSE visited
            /\ bfPersisted \cap initStore = {}
            /\ ~BackfillCanStep
            /\ ops["backfill"] = <<>>

\* Backfill has walked at least two ancestors and ended on the origin.
C2_Witness ==
    /\ BackfillDone
    /\ current.Root = OriginBlock
    /\ Cardinality(bfPersisted) >= 2


\* ------------------------------------------------------------ C3
\* C3 as claimed: whenever a poll cycle has ended by finding an already-stored
\* block, every block of the parent chain from that poll's head down to the seed
\* block has a stored record.
C3_NoBlockMissed ==
    (pollEnd = "known" /\ latest.Root \in AncestorsOrSelf(pollSnap.head)) =>
        \A b \in Between(pollSnap.head, latest.Root) : b \in DOMAIN store

\* ------------------------------------------------------------ C4
\* C4: backfill error resilience.  After a failed call backfill still stands on
\* the block whose parent it asked for, and its next call (in flight, or due
\* after the sleep) is for that same parent; every call of backfill is for the
\* parent of its current block, and every block from the seed down to the
\* current one is stored, so no ancestor is skipped; and a parent whose call
\* failed exactly once is stored when the second call for it has returned.
C4_BackfillRetriesSameParent ==
    LET r == lastRet["backfill"]
    IN  /\ (r.by # "none" /\ r.err) =>
              /\ pc["backfill"] \in {"sleep", "Header", "Exists", "Blobs", "Write"}
              /\ current.ParentRoot = r.id.root
              /\ blockIdentifier["backfill"] = r.id
        /\ (InCall("backfill") \/ pc["backfill"] = "sleep") =>
              /\ blockIdentifier["backfill"] = RootId(current.ParentRoot)
              /\ current.Root \in AncestorsOrSelf(latest.Root)
              /\ \A b \in Between(latest.Root, current.Root) : b \in DOMAIN store
        /\ (r.by # "none" /\ ~r.err /\ bfTries.id = r.id /\ bfTries.errs = 1) =>
              /\ bfTries.calls = 2
              /\ r.id.root \in DOMAIN store
              /\ current.Root = r.id.root

\* A parent's call failed once, and the one retry stored it.
C4_Witness ==
    /\ lastRet["backfill"].by # "none"
    /\ ~lastRet["backfill"].err
    /\ ~lastRet["backfill"].existed
    /\ bfTries.id = lastRet["backfill"].id
    /\ bfTries.errs = 1
    /\ bfTries.calls = 2

\* ------------------------------------------------------------ C5
PollErrorFree == \A i \in 1..Len(pollLog) : ~pollLog[i].err

\* C5: live-tracking convergence.  In a poll cycle whose head was not stored and
\* whose head's parent was stored when "head" was resolved, and in which no call
\* has failed: the first call is for "head" and writes it, the second is for its
\* parent and finds it stored, that ends the cycle, and no other block is asked
\* for or written (the head is the one new record).
C5_LiveConvergence ==
    (pollSnap.head # ZeroRoot /\ pollSnap.parentStored /\ ~pollSnap.headStored
        /\ PollErrorFree) =>
        LET h == pollSnap.head
        IN  /\ Len(pollLog) <= 2
            /\ Len(pollLog) >= 1 =>
                  pollLog[1] = [id |-> HeadId, root |-> h, existed |-> FALSE, err |-> FALSE]
            /\ Len(pollLog) = 2 =>
                  /\ pollLog[2] = [id |-> RootId(Parent(h)), root |-> Parent(h),
                                   existed |-> TRUE, err |-> FALSE]
                  /\ pollEnd = "known"
                  /\ ~InCall("main")
            /\ Len(pollLog) < 2 =>
                  /\ InCall("main")
                  /\ blockIdentifier["main"] =
                        IF Len(pollLog) = 0 THEN HeadId ELSE RootId(Parent(h))
            /\ InCall("main") /\ pc["main"] # "Header" =>
                  currentHeader["main"].Root = IF Len(pollLog) = 0 THEN h ELSE Parent(h)
            /\ Len(pollLog) >= 1 => writes[h] = 1

\* Such a cycle has ended: the head written, its parent found stored.
C5_Witness ==
    /\ pollSnap.head # ZeroRoot
    /\ pollSnap.parentStored
    /\ ~pollSnap.headStored
    /\ pollEnd = "known"
    /\ Len(pollLog) = 2

\* ------------------------------------------------------------ C6
\* C6: in live tracking an error ends the poll cycle.  A failed call is the
\* last call of its cycle and leaves the goroutine back in the select of
\* trackLatestBlocks; no identifier is asked for twice in one cycle; and the
\* first call of every cycle is for "head".
C6_LiveErrorAbortsCycle ==
    /\ \A i \in 1..Len(pollLog) :
          pollLog[i].err =>
              /\ i = Len(pollLog)
              /\ pollEnd = "error"
              /\ pc["main"] \in {"select", "returned"}
    /\ \A i, j \in 1..Len(pollLog) : i # j => pollLog[i].id # pollLog[j].id
    /\ (pollEnd = "running" /\ InCall("main")) =>
          \A i \in 1..Len(pollLog) : pollLog[i].id # blockIdentifier["main"]
    /\ Len(pollLog) >= 1 => pollLog[1].id = HeadId
    /\ (pollEnd = "running" /\ pollLog = <<>>) => blockIdentifier["main"] = HeadId

\* A cycle was aborted by an error after its first call, and the next cycle has
\* started from "head".
C6_Witness ==
    /\ pollEnd = "running"
    /\ pollLog = <<>>
    /\ lastRet["main"].by = "processBlocksUntilKnownBlock"
    /\ lastRet["main"].err
    /\ lastRet["main"].id # HeadId
    /\ blockIdentifier["main"] = HeadId

\* ------------------------------------------------------------ C7
\* C7: a race on a common ancestor.  Whatever the interleaving of the Exists
\* checks and Writes of backfill and live tracking, no hash is written more than
\* twice, and every stored record is the chain client's sidecars of exactly the
\* hash it is stored under.
C7_RaceIsHarmless ==
    \A h \in AllBlocks :
        /\ writes[h] <= 2
        /\ h \in DOMAIN store => WellFormed(h)

\* Both traversals wrote the same hash.
C7_Witness == \E h \in AllBlocks : writes[h] = 2 /\ h \in DOMAIN store


\* ------------------------------------------------------------ C8
\* C8: backfill termination.  Once launched, and with only finitely many failed
\* calls, backfill reaches the origin or an already-stored block and ends.
C8_BackfillTerminates == (pc["backfill"] # "idle") ~> BackfillDone

\* Backfill has ended although one of its calls had failed.
C8_Witness ==
    /\ BackfillDone
    /\ bfTries.errs >= 1
    /\ Cardinality(bfPersisted) >= 1

\* ------------------------------------------------------------ C9
\* Stop has closed the stop channel, or the context is cancelled.
StopSignalGiven == stopCh = "closed" \/ ctxDone

LiveRunning ==
    /\ pc["main"] \in {"select", "Header", "Exists", "Blobs", "Write"}
    /\ latest # NoHeader

\* C9: shutdown of live tracking.  Once Stop has closed the stop channel or the
\* context is cancelled, the running trackLatestBlocks loop returns in the end;
\* it returns from its select only, so a poll cycle in progress finishes first.
C9_LiveTrackingStops == (StopSignalGiven /\ LiveRunning) ~> (pc["main"] = "returned")

\* The loop has returned after a Stop, its last poll cycle complete.
C9_Witness ==
    /\ pc["main"] = "returned"
    /\ stopped
    /\ ~ctxDone
    /\ pollEnd = "known"
    /\ Len(pollLog) >= 2

\* ------------------------------------------------------------ C10
\* A step in which the backfill loop, or the inner loop of a poll cycle, goes on
\* to a new persistBlobsForBlockToS3 call.
LoopNewCall ==
    \/ pc["backfill"] \in {"idle", "sleep", "Write"} /\ pc'["backfill"] = "Header"
    \/ pc["main"] = "Write" /\ pc'["main"] = "Header"

\* C10 as claimed: after the stop signal neither the backfill loop nor the inner
\* walk of live tracking goes on to a new persistBlobsForBlockToS3 call.
C10_NoNewCallAfterStop == [][StopSignalGiven => ~LoopNewCall]_vars

\* ------------------------------------------------------------ C11
StopReturned(c) == stopCalls[c].pc = "returned"

\* C11: a second Stop.  Stopped() is false as long as nobody has called Stop, it
\* never goes back to false, and it is true once a Stop has returned; and a Stop
\* that is called when another Stop has returned returns ErrAlreadyStopped at
\* once and leaves the flag, the stop channel and the metrics server alone.
C11_SecondStop ==
    /\ []((\A c \in StopCallers : stopCalls[c].pc = "idle") => ~stopped)
    /\ []((\E c \in StopCallers : StopReturned(c)) => stopped)
    /\ [][/\ stopped => stopped'
          /\ \A c \in StopCallers :
                (/\ stopCalls[c].pc = "idle"
                 /\ stopCalls'[c].pc # "idle"
                 /\ \E d \in StopCallers : StopReturned(d)) =>
                    /\ stopCalls'[c] = [pc |-> "returned", ret |-> "ErrAlreadyStopped"]
                    /\ UNCHANGED <<stopped, stopCh, metricsServer>>]_vars

\* One Stop shut the service down and returned nil, and a Stop called after it
\* returned ErrAlreadyStopped.
C11_Witness ==
    \E c, d \in StopCallers :
        /\ stopCalls[c] = [pc |-> "returned", ret |-> "nil"]
        /\ stopCalls[d] = [pc |-> "returned", ret |-> "ErrAlreadyStopped"]
        /\ stopCh = "closed"
        /\ metricsServer = "stopped"
        /\ stopped

\* ------------------------------------------------------------ C12
\* The call returned the error of a chain-client fetch.
ChainClientFailed(r) ==
    /\ r.by # "none"
    /\ r.err
    /\ r.ops[Len(r.ops)].op \in {"BeaconBlockHeader", "BlobSidecars"}

\* C12 as claimed: a failed header or blob fetch never ends the service.  After
\* it, at seeding as in backfill and in live tracking, Start has not returned
\* an error, and the fetch is due again: backfill is asleep or back in the call
\* for the same block, the main goroutine is in its select or in a later call.
C12_ChainFailureNeverFatal ==
    /\ ChainClientFailed(lastRet["main"]) =>
          pc["main"] \in {"select", "Header", "Exists", "Blobs", "Write"}
    /\ ChainClientFailed(lastRet["backfill"]) =>
          /\ pc["backfill"] \in {"sleep", "Header", "Exists", "Blobs", "Write"}
          /\ blockIdentifier["backfill"] = lastRet["backfill"].id

\* ------------------------------------------------------------ C13
Served == apiRequest # NoRequest

BlockNotFound == [text |-> "Block not found", arg |-> <<>>]

Unresolved == Len(apiOps) = 1 /\ ~apiOps[1].ok

ReadFailed == Len(apiOps) = 2 /\ ~apiOps[2].ok

NoRecord == Len(apiOps) = 2 /\ apiOps[2].root \notin DOMAIN store

\* The stored sequence of the resolved hash, as the request selects it.
ExpectedData ==
    LET blobs == store[apiOps[2].root].BlobSidecars.Data
    IN  IF apiRequest.indices.present
        THEN SelectSeq(blobs, LAMBDA e : e.Index \in apiRequest.indices.set)
        ELSE blobs

C14_IndicesFiltering ==
    (Served /\ apiRequest.indices.present /\ Len(apiOps) = 2 /\ apiOps[2].ok
        /\ apiOps[2].root \in DOMAIN store) =>
        LET blobs == store[apiOps[2].root].BlobSidecars.Data
            wanted == apiRequest.indices.set
            data == apiResponse.data
            kept == {i \in 1..Len(blobs) : blobs[i].Index \in wanted}
        IN  /\ apiResponse.status = 200
            /\ Len(data) = Cardinality(kept)
            /\ \A i \in 1..Len(data) : data[i].Index \in wanted
            /\ \A i \in kept : \E j \in 1..Len(data) : data[j] = blobs[i]
            /\ \A i, j \in 1..Len(data) : i < j => data[i].Index < data[j].Index
            /\ kept = {} => data = <<>>

\* Of the requested indices 1 and 2 the two-blob record has the first only.
C14_Witness ==
    /\ Served
    /\ apiRequest.indices = [present |-> TRUE, set |-> {1, 2}]
    /\ apiResponse.status = 200
    /\ Len(apiResponse.data) = 1
    /\ apiResponse.data[1].Index = 1

\* ------------------------------------------------------------ C15
IsHexString(s) == Len(s) >= 1 /\ \A i \in 1..Len(s) : s[i] \in HexChars

Prefixed(s) == Len(s) >= Len(HashPrefix) /\ SubSeq(s, 1, Len(HashPrefix)) = HashPrefix

\* A hexadecimal string of a length that is not a hash's, with or without 0x.
WrongLengthHex(s) ==
    \/ IsHexString(s) /\ Len(s) # HashHexLen
    \/ /\ Prefixed(s)
       /\ IsHexString(SubSeq(s, Len(HashPrefix) + 1, Len(s)))
       /\ Len(s) # Len(HashPrefix) + HashHexLen

\* A word: it has a character that is no hexadecimal digit, and is no alias.
ArbitraryWord(s) ==
    /\ ~Prefixed(s)
    /\ \E i \in 1..Len(s) : s[i] \notin HexChars
    /\ s \notin {GenesisAlias, FinalizedAlias, HeadAlias}

ClassifiedOnce(s, kind) ==
    /\ kind \in {"ContentHash", "Position", "NamedAlias", "invalid"}
    /\ (kind = "ContentHash") = isHash(s)
    /\ (kind = "Position") = isSlot(s)
    /\ (kind = "NamedAlias") = isKnownIdentifier(s)
    /\ (kind = "invalid") = (~isHash(s) /\ ~isSlot(s) /\ ~isKnownIdentifier(s))
    /\ ~(isHash(s) /\ isSlot(s))
    /\ ~(isHash(s) /\ isKnownIdentifier(s))
    /\ ~(isSlot(s) /\ isKnownIdentifier(s))
    /\ isHash(s) => Prefixed(s) /\ Len(s) = Len(HashPrefix) + HashHexLen

\* C15 as claimed: every raw id is classified as exactly one of the four
\* kinds, no id satisfies two of the three predicates, and a string of 64
\* hexadecimal characters without 0x, a hexadecimal string of the wrong length
\* and an arbitrary word are all invalid.
C15_AllHexWithoutPrefixInvalid ==
    Served =>
        LET s == apiRequest.id
            kind == apiResponse.kind
        IN  /\ ClassifiedOnce(s, kind)
            /\ (IsHexString(s) /\ Len(s) = HashHexLen) => kind = "invalid"
            /\ WrongLengthHex(s) => kind = "invalid"
            /\ ArbitraryWord(s) => kind = "invalid"

\* C15, amended: a hexadecimal string without 0x, of 64 characters or of
\* another length, is invalid unless it consists of decimal digits only: then
\* it is a Position.
C15_ClassificationExclusive ==
    Served =>
        LET s == apiRequest.id
            kind == apiResponse.kind
        IN  /\ ClassifiedOnce(s, kind)
            /\ (IsHexString(s) /\ Len(s) = HashHexLen) =>
                  kind = IF isSlot(s) THEN "Position" ELSE "invalid"
            /\ WrongLengthHex(s) => kind = IF isSlot(s) THEN "Position" ELSE "invalid"
            /\ ArbitraryWord(s) => kind = "invalid"

\* A string of 64 hexadecimal characters, a letter among them, without 0x was
\* rejected with status 400.
C15_Witness ==
    /\ Served
    /\ IsHexString(apiRequest.id)
    /\ Len(apiRequest.id) = HashHexLen
    /\ ~isSlot(apiRequest.id)
    /\ apiResponse.kind = "invalid"
    /\ apiResponse.status = 400

\* ------------------------------------------------------------ C16
\* The step in which the persistBlobsForBlockToS3 call of p returns.
ReturnStep(p) == InCall(p) /\ pc'[p] # pc[p] /\ ops'[p] = <<>>

OpOrder == <<"BeaconBlockHeader", "Exists", "BlobSidecars", "Write">>

\* C16: persistBlobsForBlockToS3 on failure.  A call returns an error exactly
\* when one of its external calls failed; that call is its last, the calls
\* before it are the ones the primitive makes in order, each made once (no
\* retry inside), so no Write follows a failed header fetch, Exists or blob
\* fetch; the call reports neither a header nor alreadyExisted; and the step in
\* which it returns leaves the store, the write counts and the stored-blob
\* metric as they were, also when it is the Write that failed.
C16_FailureLeavesStorage ==
    /\ [](\A p \in Procs :
            LET r == lastRet[p]
                n == Len(r.ops)
            IN  r.by # "none" =>
                    /\ n \in 1..4
                    /\ \A i \in 1..n : r.ops[i].op = OpOrder[i]
                    /\ \A i \in 1..(n - 1) : r.ops[i].ok
                    /\ r.err = ~r.ops[n].ok
                    /\ r.err => ~r.existed /\ r.header = NoHeader)
    /\ [][\A p \in Procs :
            (ReturnStep(p) /\ lastRet'[p].err) =>
                UNCHANGED <<store, writes, storedBlobs, processedBlocks>>]_vars

\* A Write failed: the call returned the error after its four external calls,
\* no record was stored and the metric was not recorded.
C16_Witness ==
    \E p \in Procs :
        /\ lastRet[p].by # "none"
        /\ lastRet[p].err
        /\ Len(lastRet[p].ops) = 4
        /\ lastRet[p].ops[4].root \notin DOMAIN store
        /\ storedBlobs = 0

\* ------------------------------------------------------------ C17
Launched == latest # NoHeader

\* The blocks the current (or last) poll cycle has persisted.
PollPersisted ==
    {pollLog[i].root : i \in {j \in 1..Len(pollLog) : ~pollLog[j].err /\ ~pollLog[j].existed}}

\* C17: the strict sequential walk.  Backfill asks for the parent of its current
\* block only, and its current block is the seed or a block its own call has
\* persisted; the blocks it has persisted are exactly the parent chain from
\* below the seed down to its current block.  A poll cycle starts at "head",
\* each later call is for the parent of the block the call before it has just
\* persisted, and the blocks the cycle has persisted are the parent chain from
\* its first block down, without a gap.
C17_SequentialWalk ==
    /\ Launched =>
          LET visited == Between(latest.Root, current.Root) \ {latest.Root}
              foundStored == lastRet["backfill"].by # "none" /\ lastRet["backfill"].existed
          IN  /\ current.Root \in AncestorsOrSelf(latest.Root)
              /\ bfPersisted = IF foundStored THEN visited \ {current.Root} ELSE visited
              /\ (InCall("backfill") \/ pc["backfill"] = "sleep") =>
                    /\ blockIdentifier["backfill"] = RootId(current.ParentRoot)
                    /\ current.Root = latest.Root \/ current.Root \in bfPersisted
    /\ LET n == Len(pollLog)
       IN  /\ \A i \in 1..(n - 1) : ~pollLog[i].err /\ ~pollLog[i].existed
           /\ n >= 1 => pollLog[1].id = HeadId
           /\ \A i \in 2..n : pollLog[i].id = RootId(Parent(pollLog[i - 1].root))
           /\ (n >= 1 /\ pollEnd = "running") =>
                 /\ InCall("main")
                 /\ blockIdentifier["main"] = RootId(Parent(pollLog[n].root))
           /\ PollPersisted # {} =>
                 \E last \in PollPersisted :
                     PollPersisted = Between(pollLog[1].root, last)

\* Backfill has persisted a block and is walking on, and a poll cycle has
\* persisted two blocks in a row.
C17_Witness ==
    /\ Cardinality(bfPersisted) >= 1
    /\ Cardinality(PollPersisted) >= 2

\* ------------------------------------------------------------ C18
StrictAncestors(b) == AncestorsOrSelf(b) \ {b}

\* C18: the origin boundary.  Backfill never stands on, asks for or has asked
\* for a strict ancestor of the origin block; when its current block is the
\* origin it has ended; if it came there from above, its last call fetched the
\* origin block itself, which is stored; and if the seed is the origin block
\* it has ended without a single call.
C18_OriginBoundary ==
    Launched =>
        LET r == lastRet["backfill"]
        IN  /\ current.Root \notin StrictAncestors(OriginBlock)
            /\ (InCall("backfill") \/ pc["backfill"] = "sleep") =>
                  /\ blockIdentifier["backfill"].root \notin StrictAncestors(OriginBlock)
                  /\ current.Root # OriginBlock
            /\ r.by # "none" => r.id.root \notin StrictAncestors(OriginBlock)
            /\ current.Root = OriginBlock =>
                  /\ BackfillDone
                  /\ latest.Root # OriginBlock =>
                        /\ r.by = "backfillBlobs" /\ ~r.err
                        /\ r.id = RootId(OriginBlock)
                        /\ r.header = HeaderOf(OriginBlock)
                        /\ OriginBlock \in DOMAIN store
            /\ latest.Root = OriginBlock =>
                  /\ BackfillDone
                  /\ r.by = "none"
                  /\ bfTries.calls = 0
                  /\ bfPersisted = {}

\* Backfill came to the origin block from above, wrote it and ended.
C18_Witness ==
    /\ BackfillDone
    /\ latest.Root # OriginBlock
    /\ current.Root = OriginBlock
    /\ OriginBlock \in bfPersisted
    /\ lastRet["backfill"].id = RootId(OriginBlock)

\* ------------------------------------------------------------ C19
\* The callers that went past the flag: they perform the shutdown.
StopPerformers ==
    {c \in StopCallers :
        \/ stopCalls[c].pc \in {"Store", "close", "metrics", "panic"}
        \/ StopReturned(c) /\ stopCalls[c].ret \in {"nil", "err"}}

\* C19 as claimed: whatever the interleaving of the callers of Stop, the stop
\* channel is never closed twice and at most one caller performs the shutdown.
C19_StopClosesOnce == ~Panicked /\ Cardinality(StopPerformers) <= 1

\* ------------------------------------------------------------ C20
LiveCall(p) == caller[p] = "processBlocksUntilKnownBlock" /\ InCall(p)

\* C20: disjoint territories on a linear chain.  As long as the chain has not
\* reorganised: the seed block is stored from the launch on; every block a poll
\* cycle resolves is the seed or a descendant of it, and the blocks it fetches
\* blobs for and writes are strict descendants; backfill asks for strict
\* ancestors of the seed only; so no hash is written twice.  And every poll
\* cycle comes to its end.
C20_DisjointTerritories ==
    /\ []((Launched /\ ~reorged) =>
            /\ latest.Root \in DOMAIN store
            /\ \A h \in AllBlocks : writes[h] <= 1
            /\ \A i \in 1..Len(pollLog) :
                  ~pollLog[i].err => latest.Root \in AncestorsOrSelf(pollLog[i].root)
            /\ (LiveCall("main") /\ pc["main"] # "Header") =>
                  latest.Root \in AncestorsOrSelf(currentHeader["main"].Root)
            /\ (LiveCall("main") /\ pc["main"] \in {"Blobs", "Write"}) =>
                  latest.Root \in StrictAncestors(currentHeader["main"].Root)
            /\ PollPersisted \cap bfPersisted = {}
            /\ bfPersisted \subseteq StrictAncestors(latest.Root)
            /\ InCall("backfill") =>
                  /\ blockIdentifier["backfill"].root \in StrictAncestors(latest.Root)
                  /\ pc["backfill"] # "Header" =>
                        currentHeader["backfill"].Root \in StrictAncestors(latest.Root))
    /\ (pollEnd = "running") ~> (pollEnd # "running")

\* On a chain that has not reorganised, backfill has written below the seed and
\* a poll cycle has written above it and ended on a stored block.
C20_Witness ==
    /\ ~reorged
    /\ bfPersisted # {}
    /\ PollPersisted # {}
    /\ pollEnd = "known"

====
